---- MODULE Spec2Model ----
(***************************************************************************)
(* EV charger economic comparison (SLB system vs. grid-only charger).      *)
(* The two Streamlit scripts of src/v4.py are modelled: "v4" (lines 1-111) *)
(* and "v5" (lines 114-234).  A script run is a pipeline                   *)
(*   widgets -> calculations -> metrics -> output,                         *)
(* re-executed from the top whenever a widget changes.                     *)
(*                                                                         *)
(* Python floats are modelled as exact rationals [n |-> num, d |-> den]    *)
(* in lowest terms with d > 0; floating-point rounding is not modelled.    *)
(***************************************************************************)
EXTENDS Integers, Sequences, FiniteSets, TLC

\* ------------------------------------------------------------- bounds
\* Largest analysis horizon explored (the slider allows up to 30).
MaxYears == 5
\* Longest argument list handed to the metric functions in SpecFn.
MaxLen == 3

\* ------------------------------------------------------------- rationals
Abs(x) ==
    IF x < 0 THEN -x ELSE x

RECURSIVE GCD(_, _)
GCD(a, b) ==
    IF b = 0 THEN a ELSE GCD(b, a % b)

\* n/d in lowest terms (d > 0).
Norm(n, d) ==
    LET g == GCD(Abs(n), d) IN [n |-> n \div g, d |-> d \div g]

\* An int (or a Python int literal) as a float.
R(n) ==
    [n |-> n, d |-> 1]

Frac(n, d) ==
    Norm(n, d)

RNeg(a) ==
    [n |-> -a.n, d |-> a.d]

RAdd(a, b) ==
    LET g == GCD(a.d, b.d)
    IN  Norm(a.n * (b.d \div g) + b.n * (a.d \div g), (a.d \div g) * b.d)

RSub(a, b) ==
    RAdd(a, RNeg(b))

RMul(a, b) ==
    LET g1 == GCD(Abs(a.n), b.d)
        g2 == GCD(Abs(b.n), a.d)
    IN  Norm((a.n \div g1) * (b.n \div g2), (a.d \div g2) * (b.d \div g1))

\* a / b for b > 0 (every divisor in the scripts is 100 or a power of 1 + rate).
RDiv(a, b) ==
    RMul(a, [n |-> b.d, d |-> b.n])

RECURSIVE RPow(_, _)
RPow(a, k) ==
    IF k = 0 THEN R(1) ELSE RMul(a, RPow(a, k - 1))

RLess(a, b) ==
    LET g == GCD(a.d, b.d)
    IN  a.n * (b.d \div g) < b.n * (a.d \div g)

RLeq(a, b) ==
    ~RLess(b, a)

\* ------------------------------------------------------------- state
VARIABLES
    script,            \* which script is deployed: "v4" or "v5"
    library,           \* how the installed financial routines behave (see Libraries)
    w,                 \* the widget values of the current run
    pc,                \* position of the run
    step,              \* index of the next output statement
    slb_cashflows, fc_slb, ongrid_cashflows, fc_ongrid, results,
    irr_slb, npv_slb, pb_slb, irr_ongrid, npv_ongrid, pb_ongrid,
    crossover_point,
    shown,             \* what has been handed to the page so far
    fn, args, ret      \* SpecFn: the metric function called, its arguments, its result

vars ==
    <<script, library, w, pc, step, slb_cashflows, fc_slb, ongrid_cashflows,
      fc_ongrid, results, irr_slb, npv_slb, pb_slb, irr_ongrid, npv_ongrid,
      pb_ongrid, crossover_point, shown, fn, args, ret>>

\* Python's None where an int is expected (year indices are >= 0).
None ==
    -1

\* ------------------------------------------------------------- widgets
\* Lower end of the "Analysis Horizon (years)" slider.
MinYears == 5

AnalysisYearsValues ==
    MinYears .. MaxYears

\* Values the widgets are given; all lie inside the widgets' ranges.
DiscountPctValues ==
    {R(0), R(10), R(20)}

InflationPctValues ==
    {R(0), R(10)}

ResidualPctValues ==
    {R(0), R(50)}

BatteryCapacityValues ==
    {R(10)}

ChargePercentValues ==
    {50, 100}

ChargingSessionsValues ==
    {1}

DaysNoChargingValues ==
    {2}

FeedInEfficiencyValues ==
    {50}

CapexPvValues ==
    {R(0), R(20)}

CapexBatteryValues ==
    {R(0), R(30)}

OpexValues ==
    {R(0), R(10), R(40)}

ElectricityPriceValues ==
    {R(0), Frac(1, 2)}

Widgets ==
    [ analysis_years : AnalysisYearsValues,
      discount_pct : DiscountPctValues,
      inflation_pct : InflationPctValues,
      residual_pct : ResidualPctValues,
      ev_battery_capacity : BatteryCapacityValues,
      ev_charge_percent : ChargePercentValues,
      ev_charging_sessions : ChargingSessionsValues,
      ev_days_no_charging : DaysNoChargingValues,
      feed_in_efficiency_pct : FeedInEfficiencyValues,
      slb_capex_pv : CapexPvValues,
      slb_capex_battery : CapexBatteryValues,
      slb_opex : OpexValues,
      electricity_price : ElectricityPriceValues ]

\* ------------------------------------------------------------- inputs section
discount_rate(p) ==
    RDiv(p.discount_pct, R(100))

inflation_rate(p) ==
    RDiv(p.inflation_pct, R(100))

residual_value_percent(p) ==
    RDiv(p.residual_pct, R(100))

feed_in_efficiency(p) ==
    RDiv(R(p.feed_in_efficiency_pct), R(100))

monthly_consumption(p) ==
    RMul(RMul(p.ev_battery_capacity, RDiv(R(p.ev_charge_percent), R(100))),
         R(p.ev_charging_sessions))

\* ------------------------------------------------------------- calculations
annual_energy(p) ==
    RMul(monthly_consumption(p), R(12))

feed_in_tariff(p) ==
    RMul(Frac(7, 10), p.electricity_price)

energy_for_sale_per_month(p) ==
    RMul(RMul(RMul(p.ev_battery_capacity,
                   RSub(R(1), RDiv(R(p.ev_charge_percent), R(100)))),
              R(p.ev_days_no_charging)),
         feed_in_efficiency(p))

slb_total_capex(p) ==
    RAdd(p.slb_capex_pv, p.slb_capex_battery)

escalated_cost(p, year) ==
    RMul(RMul(p.electricity_price, RPow(RAdd(R(1), inflation_rate(p)), year - 1)),
         annual_energy(p))

escalated_revenue(p, year) ==
    RMul(RMul(RMul(feed_in_tariff(p), RPow(RAdd(R(1), inflation_rate(p)), year - 1)),
              energy_for_sale_per_month(p)),
         R(12))

cashflow_opex_added(p, year) ==
    IF script = "v5"
    THEN RAdd(RAdd(escalated_cost(p, year), escalated_revenue(p, year)), p.slb_opex)
    ELSE RAdd(escalated_cost(p, year), p.slb_opex)

\* The SLB loop body's nominal cash flow: v5 adds the feed-in revenue, v4 has none.
cashflow(p, year) ==
    IF script = "v5"
    THEN RSub(RAdd(escalated_cost(p, year), escalated_revenue(p, year)), p.slb_opex)
    ELSE RSub(escalated_cost(p, year), p.slb_opex)

discounted_cashflow(p, cf, year) ==
    RDiv(cf, RPow(RAdd(R(1), discount_rate(p)), year))

residual_value(p) ==
    RMul(residual_value_percent(p), slb_total_capex(p))

\* list[-1] += x
AddToLast(s, x) ==
    [s EXCEPT ![Len(s)] = RAdd(s[Len(s)], x)]

\* Positions of the lists built by "l = [x0]; for year in years: l.append(...)":
\* position i holds year i - 1, for the years 0 .. analysis_years.
YearIndex_short(p) ==
    1 .. p.analysis_years

YearIndex(p) ==
    1 .. (p.analysis_years + 1)

calc_slb_cashflows_discounted(p) ==
    AddToLast([i \in 1 .. (p.analysis_years + 1) |->
                  IF i = 1 THEN RNeg(slb_total_capex(p))
                  ELSE discounted_cashflow(p, cashflow(p, i - 1), i - 1)],
              residual_value(p))

calc_slb_cashflows(p) ==
    AddToLast([i \in YearIndex(p) |->
                  IF i = 1 THEN RNeg(slb_total_capex(p)) ELSE cashflow(p, i - 1)],
              residual_value(p))

calc_fc_slb_residual_nominal(p) ==
    AddToLast([i \in 1 .. (p.analysis_years + 1) |->
                  IF i = 1 THEN RNeg(slb_total_capex(p))
                  ELSE discounted_cashflow(p, cashflow(p, i - 1), i - 1)],
              residual_value(p))

calc_fc_slb(p) ==
    AddToLast([i \in YearIndex(p) |->
                  IF i = 1 THEN RNeg(slb_total_capex(p))
                  ELSE discounted_cashflow(p, cashflow(p, i - 1), i - 1)],
              RDiv(residual_value(p),
                   RPow(RAdd(R(1), discount_rate(p)), p.analysis_years)))

calc_ongrid_cashflows(p) ==
    [i \in YearIndex(p) |-> IF i = 1 THEN R(0) ELSE RNeg(escalated_cost(p, i - 1))]

calc_fc_ongrid(p) ==
    [i \in YearIndex(p) |->
        IF i = 1 THEN R(0)
        ELSE discounted_cashflow(p, RNeg(escalated_cost(p, i - 1)), i - 1)]

\* np.cumsum
RECURSIVE cumsum(_)
cumsum(s) ==
    IF Len(s) = 0 THEN <<>>
    ELSE LET init == cumsum(SubSeq(s, 1, Len(s) - 1))
         IN  IF Len(init) = 0 THEN <<s[1]>>
             ELSE Append(init, RAdd(init[Len(init)], s[Len(s)]))

\* The results DataFrame: the Year column and one cumulative column per scenario.
calc_results(p) ==
    [ Year |-> [i \in YearIndex(p) |-> i - 1],
      SLB |-> cumsum(calc_fc_slb(p)),
      On_grid |-> cumsum(calc_fc_ongrid(p)) ]

NoResults ==
    [Year |-> <<>>, SLB |-> <<>>, On_grid |-> <<>>]

\* ------------------------------------------------------------- metrics
\* What the library's irr routine (np.irr in v4, npf.irr in v5) does when
\* calculate_irr calls it:
\*   "ok"           it returns;
\*   "irr_raises"   it raises (np.roots' eigenvalue iteration fails to converge),
\*                  the case calculate_irr's try/except is there for.
Libraries ==
    {"ok", "irr_raises"}

\* Number of sign changes along the non-zero entries of a cash-flow list.
RECURSIVE SignChangesFrom(_, _, _)
SignChangesFrom(cashflows, i, last) ==
    IF i > Len(cashflows) THEN 0
    ELSE LET s == IF cashflows[i].n > 0 THEN 1 ELSE IF cashflows[i].n < 0 THEN -1 ELSE 0
         IN  IF s = 0 THEN SignChangesFrom(cashflows, i + 1, last)
             ELSE (IF last # 0 /\ s # last THEN 1 ELSE 0)
                  + SignChangesFrom(cashflows, i + 1, s)

SignChanges(cashflows) ==
    SignChangesFrom(cashflows, 1, 0)

NoneIrr ==
    [kind |-> "None", of |-> <<>>]

\* np.irr / npf.irr: the rate of the positive real root of the cash-flow
\* polynomial that is closest to zero, nan when there is no such root.  Without
\* a sign change there is none (Descartes' rule of signs); a projected series
\* has at most one sign change and then exactly one positive root.  The rate is
\* kept symbolic: it is the function "of" the cash flows it was computed from.
irr(cashflows) ==
    IF SignChanges(cashflows) = 0
    THEN [kind |-> "nan", of |-> <<>>]
    ELSE [kind |-> "rate", of |-> cashflows]

calculate_irr(cashflows) ==
    IF library = "ok" THEN irr(cashflows) ELSE NoneIrr

RECURSIVE npv_sum(_, _, _)
npv_sum(rate, cashflows, i) ==
    IF i > Len(cashflows) THEN R(0)
    ELSE RAdd(RDiv(cashflows[i], RPow(RAdd(R(1), rate), i - 1)),
              npv_sum(rate, cashflows, i + 1))

calculate_npv(cashflows, rate) ==
    npv_sum(rate, cashflows, 1)

\* The loop of calculate_payback, about to read the entry of 0-based index i.
RECURSIVE payback_loop(_, _, _)
payback_loop(cashflows, i, cumulative) ==
    IF i >= Len(cashflows) THEN None
    ELSE LET c == RAdd(cumulative, cashflows[i + 1])
         IN  IF RLeq(R(0), c) THEN i ELSE payback_loop(cashflows, i + 1, c)

RECURSIVE payback_loop_strict(_, _, _)
payback_loop_strict(cashflows, i, cumulative) ==
    IF i >= Len(cashflows) THEN None
    ELSE LET c == RAdd(cumulative, cashflows[i + 1])
         IN  IF RLess(R(0), c) THEN i ELSE payback_loop_strict(cashflows, i + 1, c)

calculate_payback_strict(cashflows) ==
    payback_loop_strict(cashflows, 0, R(0))

calculate_payback_one_based(cashflows) ==
    LET y == payback_loop(cashflows, 0, R(0))
    IN  IF y = None THEN None ELSE y + 1

calculate_payback(cashflows) ==
    payback_loop(cashflows, 0, R(0))

Min(a, b) ==
    IF a < b THEN a ELSE b

\* The loop of calculate_crossover over zip(results_slb, results_ongrid).
RECURSIVE crossover_loop(_, _, _)
crossover_loop(results_slb, results_ongrid, year) ==
    IF year >= Min(Len(results_slb), Len(results_ongrid)) THEN None
    ELSE IF RLess(results_ongrid[year + 1], results_slb[year + 1]) THEN year
         ELSE crossover_loop(results_slb, results_ongrid, year + 1)

RECURSIVE crossover_loop_cmp(_, _, _, _)
crossover_loop_cmp(results_slb, results_ongrid, year, cmp) ==
    IF year >= Min(Len(results_slb), Len(results_ongrid)) THEN None
    ELSE LET s == results_slb[year + 1]
             g == results_ongrid[year + 1]
             hit == IF cmp = ">=" THEN RLeq(g, s) ELSE RLess(s, g)
         IN  IF hit THEN year
             ELSE crossover_loop_cmp(results_slb, results_ongrid, year + 1, cmp)

calculate_crossover_geq(results_slb, results_ongrid) ==
    crossover_loop_cmp(results_slb, results_ongrid, 0, ">=")

calculate_crossover_below(results_slb, results_ongrid) ==
    crossover_loop_cmp(results_slb, results_ongrid, 0, "<")

calculate_crossover(results_slb, results_ongrid) ==
    crossover_loop(results_slb, results_ongrid, 0)

\* ------------------------------------------------------------- formatting
\* "{:.2f}": the value in cents, rounded to nearest, ties to even.
Format2f(x) ==
    LET q == x.n \div x.d
        r == x.n % x.d
        c == (r * 100) \div x.d
        rem == (r * 100) % x.d
        up == 2 * rem > x.d \/ (2 * rem = x.d /\ c % 2 = 1)
    IN  q * 100 + c + (IF up THEN 1 ELSE 0)

\* "{:.2%}" of a float.
FormatPct(x) ==
    IF x.kind = "nan" THEN "nan%" ELSE "rate%"

FormatPayback(pb) ==
    IF pb # None THEN ToString(pb) ELSE "N/A"

MetricsLine(name, i, n, pb) ==
    [kind |-> name, irr |-> FormatPct(i), npv |-> Format2f(n), payback |-> FormatPayback(pb)]

CrossoverLine(c) ==
    [kind |-> "crossover",
     text |-> IF c # None THEN ToString(c) ELSE "Not reached within analysis horizon"]

Chart(r) ==
    [kind |-> "chart", data |-> r]

Table(r) ==
    [kind |-> "table",
     data |-> [ Year |-> [i \in DOMAIN r.Year |-> Format2f(R(r.Year[i]))],
                SLB |-> [i \in DOMAIN r.SLB |-> Format2f(r.SLB[i])],
                On_grid |-> [i \in DOMAIN r.On_grid |-> Format2f(r.On_grid[i])] ]]

\* The output statements of each script, in program order.
OutputOrder ==
    IF script = "v5"
    THEN <<"chart", "slb", "ongrid", "crossover", "table">>
    ELSE <<"slb", "ongrid", "chart", "table">>

\* ------------------------------------------------------------- actions
Init ==
    /\ script \in {"v4", "v5"}
    /\ library \in Libraries
    /\ w \in Widgets
    /\ pc = "calc"
    /\ step = 1
    /\ slb_cashflows = <<>>
    /\ fc_slb = <<>>
    /\ ongrid_cashflows = <<>>
    /\ fc_ongrid = <<>>
    /\ results = NoResults
    /\ irr_slb = NoneIrr
    /\ npv_slb = R(0)
    /\ pb_slb = None
    /\ irr_ongrid = NoneIrr
    /\ npv_ongrid = R(0)
    /\ pb_ongrid = None
    /\ crossover_point = None
    /\ shown = <<>>
    /\ fn = "none"
    /\ args = <<>>
    /\ ret = None

env ==
    <<script, library, fn, args, ret>>

series ==
    <<slb_cashflows, fc_slb, ongrid_cashflows, fc_ongrid, results>>

metrics ==
    <<irr_slb, npv_slb, pb_slb, irr_ongrid, npv_ongrid, pb_ongrid, crossover_point>>

\* The SIMULATION / CALCULATIONS section of the script.
Calculate ==
    /\ pc = "calc"
    /\ slb_cashflows' = calc_slb_cashflows(w)
    /\ fc_slb' = calc_fc_slb(w)
    /\ ongrid_cashflows' = calc_ongrid_cashflows(w)
    /\ fc_ongrid' = calc_fc_ongrid(w)
    /\ results' = calc_results(w)
    /\ pc' = "metrics"
    /\ UNCHANGED <<env, w, step, metrics, shown>>

\* The metric assignments.
Metrics ==
    /\ pc = "metrics"
    /\ irr_slb' = calculate_irr(slb_cashflows)
    /\ npv_slb' = calculate_npv(slb_cashflows, discount_rate(w))
    /\ pb_slb' = calculate_payback(slb_cashflows)
    /\ irr_ongrid' = calculate_irr(ongrid_cashflows)
    /\ npv_ongrid' = calculate_npv(ongrid_cashflows, discount_rate(w))
    /\ pb_ongrid' = calculate_payback(ongrid_cashflows)
    /\ crossover_point' = IF script = "v5"
                          THEN calculate_crossover(results.SLB, results.On_grid)
                          ELSE None
    /\ pc' = "out"
    /\ UNCHANGED <<env, w, step, series, shown>>

\* After an output statement: on to the next one, or the script is over.
Advance ==
    /\ step' = step + 1
    /\ pc' = IF step = Len(OutputOrder) THEN "done" ELSE "out"

At(stmt) ==
    /\ pc = "out"
    /\ OutputOrder[step] = stmt

ShowChart ==
    /\ At("chart")
    /\ shown' = Append(shown, Chart(results))
    /\ Advance
    /\ UNCHANGED <<env, w, series, metrics>>

\* st.markdown(f"... IRR: `{irr_slb:.2%}` ..."): formatting None raises TypeError.
ShowSlbLine ==
    /\ At("slb")
    /\ IF irr_slb = NoneIrr
       THEN /\ pc' = "crashed"
            /\ UNCHANGED <<step, shown>>
       ELSE /\ shown' = Append(shown, MetricsLine("slb", irr_slb, npv_slb, pb_slb))
            /\ Advance
    /\ UNCHANGED <<env, w, series, metrics>>

ShowOngridLine ==
    /\ At("ongrid")
    /\ IF irr_ongrid = NoneIrr
       THEN /\ pc' = "crashed"
            /\ UNCHANGED <<step, shown>>
       ELSE /\ shown' = Append(shown, MetricsLine("ongrid", irr_ongrid, npv_ongrid, pb_ongrid))
            /\ Advance
    /\ UNCHANGED <<env, w, series, metrics>>

ShowCrossover ==
    /\ At("crossover")
    /\ shown' = Append(shown, CrossoverLine(crossover_point))
    /\ Advance
    /\ UNCHANGED <<env, w, series, metrics>>

ShowTable ==
    /\ At("table")
    /\ shown' = Append(shown, Table(results))
    /\ Advance
    /\ UNCHANGED <<env, w, series, metrics>>

WidgetRange(k) ==
    CASE k = "analysis_years" -> AnalysisYearsValues
      [] k = "discount_pct" -> DiscountPctValues
      [] k = "inflation_pct" -> InflationPctValues
      [] k = "residual_pct" -> ResidualPctValues
      [] k = "ev_battery_capacity" -> BatteryCapacityValues
      [] k = "ev_charge_percent" -> ChargePercentValues
      [] k = "ev_charging_sessions" -> ChargingSessionsValues
      [] k = "ev_days_no_charging" -> DaysNoChargingValues
      [] k = "feed_in_efficiency_pct" -> FeedInEfficiencyValues
      [] k = "slb_capex_pv" -> CapexPvValues
      [] k = "slb_capex_battery" -> CapexBatteryValues
      [] k = "slb_opex" -> OpexValues
      [] k = "electricity_price" -> ElectricityPriceValues

\* The user changes one widget: Streamlit runs the script again from the top,
\* with fresh script variables and an empty page.
Rerun ==
    /\ pc \in {"done", "crashed"}
    /\ \E k \in DOMAIN w :
          \E v \in WidgetRange(k) \ {w[k]} :
             w' = [w EXCEPT ![k] = v]
    /\ pc' = "calc"
    /\ step' = 1
    /\ slb_cashflows' = <<>>
    /\ fc_slb' = <<>>
    /\ ongrid_cashflows' = <<>>
    /\ fc_ongrid' = <<>>
    /\ results' = NoResults
    /\ irr_slb' = NoneIrr
    /\ npv_slb' = R(0)
    /\ pb_slb' = None
    /\ irr_ongrid' = NoneIrr
    /\ npv_ongrid' = R(0)
    /\ pb_ongrid' = None
    /\ crossover_point' = None
    /\ shown' = <<>>
    /\ UNCHANGED env

Next ==
    \/ Calculate
    \/ Metrics
    \/ ShowChart
    \/ ShowSlbLine
    \/ ShowOngridLine
    \/ ShowCrossover
    \/ ShowTable
    \/ Rerun

Spec ==
    Init /\ [][Next]_vars

\* ------------------------------------------------------------- the metric functions alone
\* calculate_payback and calculate_crossover applied to arbitrary lists.
PaybackValues ==
    -2 .. 2

CrossoverValues ==
    -1 .. 1

SeqsOf(S, n) ==
    [1 .. n -> S]

AsFloats(s) ==
    [i \in DOMAIN s |-> R(s[i])]

InitFn ==
    /\ script = "v5"
    /\ library = "ok"
    /\ w = CHOOSE p \in Widgets : TRUE
    /\ pc = "idle"
    /\ step = 1
    /\ slb_cashflows = <<>>
    /\ fc_slb = <<>>
    /\ ongrid_cashflows = <<>>
    /\ fc_ongrid = <<>>
    /\ results = NoResults
    /\ irr_slb = NoneIrr
    /\ npv_slb = R(0)
    /\ pb_slb = None
    /\ irr_ongrid = NoneIrr
    /\ npv_ongrid = R(0)
    /\ pb_ongrid = None
    /\ crossover_point = None
    /\ shown = <<>>
    /\ fn = "none"
    /\ args = <<>>
    /\ ret = None

pipeline ==
    <<script, library, w, pc, step, series, metrics, shown>>

CallPayback ==
    /\ fn = "none"
    /\ \E n \in 0 .. MaxLen :
          \E cf \in SeqsOf(PaybackValues, n) :
             /\ args' = <<AsFloats(cf)>>
             /\ ret' = calculate_payback(AsFloats(cf))
    /\ fn' = "calculate_payback"
    /\ UNCHANGED pipeline

CallCrossover ==
    /\ fn = "none"
    /\ \E n \in 0 .. MaxLen :
          \E a, b \in SeqsOf(CrossoverValues, n) :
             /\ args' = <<AsFloats(a), AsFloats(b)>>
             /\ ret' = calculate_crossover(AsFloats(a), AsFloats(b))
    /\ fn' = "calculate_crossover"
    /\ UNCHANGED pipeline

Return ==
    /\ fn # "none"
    /\ fn' = "none"
    /\ args' = <<>>
    /\ ret' = None
    /\ UNCHANGED pipeline

NextFn ==
    \/ CallPayback
    \/ CallCrossover
    \/ Return

SpecFn ==
    InitFn /\ [][NextFn]_vars

\* ------------------------------------------------------------- properties
\* Running sum of the entries of years 0 .. y of a cash-flow list.
RECURSIVE PrefixSum(_, _)
PrefixSum(cf, y) ==
    IF y < 0 THEN R(0) ELSE RAdd(PrefixSum(cf, y - 1), cf[y + 1])

Years(cf) ==
    0 .. (Len(cf) - 1)

IsLeast(y, S) ==
    /\ y \in S
    /\ \A z \in S : y <= z

\* The run has assigned the series / the metrics.
SeriesDone ==
    pc \in {"metrics", "out", "done", "crashed"}

MetricsDone ==
    pc \in {"out", "done", "crashed"}

RunOver ==
    pc \in {"done", "crashed"}

\* The run is over and had assigned its metrics.
MetricsOver ==
    RunOver /\ MetricsDone

\* C1: calculate_payback returns the smallest index y whose running sum of
\* the entries 0..y is >= 0, and None exactly when no prefix sum is >= 0.
C1_PaybackIsFirstNonNegativePrefix ==
    fn = "calculate_payback" =>
        LET cf == args[1]
            reached == {y \in Years(cf) : RLeq(R(0), PrefixSum(cf, y))}
        IN  IF reached = {} THEN ret = None ELSE IsLeast(ret, reached)

C1_Witness ==
    /\ fn = "calculate_payback"
    /\ ret = 2
    /\ RLess(R(0), PrefixSum(args[1], 2))

\* C2: calculate_crossover returns the smallest year at which the SLB
\* cumulative value strictly exceeds the grid-only one, and None exactly when
\* there is no such year.
C2_CrossoverIsFirstStrictExcess ==
    fn = "calculate_crossover" =>
        LET slb == args[1]
            grid == args[2]
            above == {y \in Years(slb) : RLess(grid[y + 1], slb[y + 1])}
        IN  IF above = {} THEN ret = None ELSE IsLeast(ret, above)

C2_Witness ==
    /\ fn = "calculate_crossover"
    /\ ret = 2
    /\ args[1][1] = args[2][1]

\* C3 as stated: when the crossover year c is defined, SLB < grid-only at
\* every year before c and SLB >= grid-only at c (cumulative discounted).
C3_StrictlyBelowBeforeCrossover ==
    crossover_point # None =>
        /\ \A y \in 0 .. (crossover_point - 1) :
              RLess(results.SLB[y + 1], results.On_grid[y + 1])
        /\ RLeq(results.On_grid[crossover_point + 1], results.SLB[crossover_point + 1])

\* C3 amended: when the crossover year c is defined, SLB <= grid-only at
\* every year before c and SLB >= grid-only at c (cumulative discounted).
C3_NotAboveBeforeCrossover ==
    crossover_point # None =>
        /\ \A y \in 0 .. (crossover_point - 1) :
              RLeq(results.SLB[y + 1], results.On_grid[y + 1])
        /\ RLeq(results.On_grid[crossover_point + 1], results.SLB[crossover_point + 1])

C3_Witness ==
    /\ pc = "done"
    /\ crossover_point >= 2

\* The IRR of a cash-flow list is not computable: no sign change, or the
\* root-finder raises.
IrrNotComputable(cashflows) ==
    SignChanges(cashflows) = 0 \/ library # "ok"

LineShown(name) ==
    \E i \in DOMAIN shown : shown[i].kind = name

IrrShownOnlyAs(name, text) ==
    \A i \in DOMAIN shown : shown[i].kind = name => shown[i].irr = text

\* C4: whenever a scenario's IRR is not computable, the run does not end in
\* a fatal error and that scenario's IRR is shown as "N/A".
C4_UncomputableIrrShownAsNA ==
    SeriesDone =>
        /\ IrrNotComputable(slb_cashflows) =>
              /\ pc # "crashed"
              /\ IrrShownOnlyAs("slb", "N/A")
              /\ pc = "done" => LineShown("slb")
        /\ IrrNotComputable(ongrid_cashflows) =>
              /\ pc # "crashed"
              /\ IrrShownOnlyAs("ongrid", "N/A")
              /\ pc = "done" => LineShown("ongrid")

MetricFailure(irr_x, pb_x) ==
    irr_x.kind # "rate" \/ pb_x = None

\* C5: a metric-computation failure in one scenario (undefined IRR, unreached
\* payback) never keeps the other scenario's metrics line, the crossover line
\* and the results table from being displayed in the same run.
C5_FailureDoesNotBlockOtherOutput ==
    RunOver =>
        /\ MetricFailure(irr_slb, pb_slb) =>
              LineShown("ongrid") /\ LineShown("table")
              /\ (script = "v5" => LineShown("crossover"))
        /\ MetricFailure(irr_ongrid, pb_ongrid) =>
              LineShown("slb") /\ LineShown("table")
              /\ (script = "v5" => LineShown("crossover"))

WithDiscount(d) ==
    [w EXCEPT !.discount_pct = d]

\* C6: a run that differs only in discountRate has the same nominal cash
\* flows in both scenarios, the same IRRs and the same payback years.
C6_DiscountRateLeavesNominalUnchanged ==
    \A d \in DiscountPctValues :
        /\ (pc = "metrics" \/ MetricsOver) =>
              /\ calc_slb_cashflows(WithDiscount(d)) = slb_cashflows
              /\ calc_ongrid_cashflows(WithDiscount(d)) = ongrid_cashflows
        /\ MetricsOver =>
              LET slb == calc_slb_cashflows(WithDiscount(d))
                  ongrid == calc_ongrid_cashflows(WithDiscount(d))
              IN  /\ calculate_irr(slb) = irr_slb
                  /\ calculate_irr(ongrid) = irr_ongrid
                  /\ calculate_payback(slb) = pb_slb
                  /\ calculate_payback(ongrid) = pb_ongrid

C6_Witness ==
    /\ pc = "done"
    /\ w.discount_pct # R(0)
    /\ irr_slb.kind = "rate"
    /\ pb_slb > 0
    /\ fc_slb # slb_cashflows

\* A payback year, with "not reached" later than every year of the horizon.
PaybackRank(pb) ==
    IF pb = None THEN w.analysis_years + 1 ELSE pb

PaybackWithOpex(o) ==
    calculate_payback(calc_slb_cashflows([w EXCEPT !.slb_opex = o]))

\* C7: with every other input fixed, the SLB payback year is non-decreasing
\* in annualOpexSLB, a payback not reached counting as later than every year.
C7_PaybackMonotoneInOpex ==
    MetricsOver =>
        \A o \in OpexValues :
            /\ RLeq(w.slb_opex, o) =>
                  PaybackRank(pb_slb) <= PaybackRank(PaybackWithOpex(o))
            /\ RLeq(o, w.slb_opex) =>
                  PaybackRank(PaybackWithOpex(o)) <= PaybackRank(pb_slb)

C7_Witness ==
    /\ pc = "done"
    /\ pb_slb > 0
    /\ \E o1, o2 \in OpexValues :
          /\ RLess(w.slb_opex, o1)
          /\ RLess(o1, o2)
          /\ pb_slb < PaybackWithOpex(o1)
          /\ PaybackWithOpex(o1) # None
          /\ PaybackWithOpex(o2) = None

\* C8: in both scenarios the nominal, the discounted and the cumulative
\* discounted series have analysisYears + 1 entries, and the year-0 entry is
\* -(capexPV + capexBattery) for SLB and 0 for grid-only.
C8_SeriesShape ==
    SeriesDone =>
        /\ \A s \in {slb_cashflows, fc_slb, results.SLB} :
              /\ Len(s) = w.analysis_years + 1
              /\ s[1] = RNeg(RAdd(w.slb_capex_pv, w.slb_capex_battery))
        /\ \A s \in {ongrid_cashflows, fc_ongrid, results.On_grid} :
              /\ Len(s) = w.analysis_years + 1
              /\ s[1] = R(0)

C8_Witness ==
    /\ pc = "done"
    /\ RLess(R(0), w.slb_capex_pv)
    /\ RLess(R(0), w.slb_capex_battery)
    /\ Len(results.SLB) = w.analysis_years + 1

Discounted(x, y) ==
    RDiv(x, RPow(RAdd(R(1), RDiv(w.discount_pct, R(100))), y))

C10_PaybackAtYearZero ==
    MetricsDone =>
        /\ pb_ongrid = 0
        /\ pb_slb = 0 <=> RAdd(w.slb_capex_pv, w.slb_capex_battery) = R(0)

C10_Witness ==
    /\ pc = "done"
    /\ pb_ongrid = 0
    /\ RLess(ongrid_cashflows[2], R(0))
    /\ pb_slb > 0
====
